---- MODULE Spec2Model ----
(***************************************************************************)
(* copy-kun: a bot that mirrors linked content into a target community     *)
(* and keeps the mirrored reply synchronised with edits of the source.     *)
(* The model covers the persistent store (database.py), the scans of new   *)
(* posts and comments (CopyKun.check_new_posts, check_new_comments), the   *)
(* initial copy (CopyKun.copy_post), the comment chain                     *)
(* (CopyKun.get_comment_chain) and the edit reconciliation pass            *)
(* (CopyKun.check_edits) of copykun.py.                                    *)
(*                                                                         *)
(* Text is a sequence of one-character strings.  A few substrings that     *)
(* contain neither a newline, a dash, a blank nor a '>' are kept as one    *)
(* element (the tagline, the title, the configured footer, a paragraph,    *)
(* the words "Edited @ " and a formatted date).                            *)
(***************************************************************************)
EXTENDS Integers, Sequences, FiniteSets, TLC

(***************************************************************************)
(* Bounds of the model.                                                    *)
(***************************************************************************)
MaxTime == 3000     \* the clock stops advancing here
MaxSrcEdits == 1     \* edits the authors of the sources make in total
MaxFaults == 1       \* failed fetches and failed store writes in total
StartTime == 1000    \* time.time() when the bot is first run
TzSkew == 28800       \* |utcnow().timestamp() - time.time()| on a non-UTC host
PassItems == 10      \* tracked posts in the store of the single-pass specification
DueCount == 2        \* posts in the store of the single-query specification
MaxDepth == 3        \* replies on the path from the document to the target reply
MaxPointFetches == 2 \* point fetches counted beyond one per reply on the path
LongParaLen == 9000  \* characters of the long paragraph of the length specification
RoundPostCount == 4   \* tracked posts of the repeated-passes specification
MaxRevisions == 2     \* edits the author makes in the edit-history specification
Pause == 40           \* seconds after which the bot may be started again whatever is due
MaxDrift == 2         \* readings of the clock away from a due instant in one behaviour
MaxImports == 1       \* calls of Database.convert_json in one behaviour

(***************************************************************************)
(* Program constants.                                                      *)
(***************************************************************************)
TEXT_DIVIDER == <<"\n", "\n", "-", "-", "-", "-", "\n">>
InitialInterval == 60
EmptyDiffCap == 16384
NoChangeCapLow == EmptyDiffCap
NoChangeCap == 16384 * 2
RejectedCap == 16384 * 2
PassCap == 8
MAX_COMMENT_LENGTH == 10000

\* Content.edited is NULL after copy_post of a never edited source
NoneVal == -1

(***************************************************************************)
(* Python string primitives.                                               *)
(***************************************************************************)
Min(a, b) == IF a <= b THEN a ELSE b
Max(a, b) == IF a >= b THEN a ELSE b

\* s[lo:hi] with 0-based, end-exclusive Python indices already clipped
Slice(s, lo, hi) == SubSeq(s, lo + 1, hi)

Occurs(s, pat, p) ==
    /\ p + Len(pat) <= Len(s)
    /\ \A k \in 1..Len(pat) : s[p + k] = pat[k]

\* positions (0-based) where pat occurs in s
Occurrences(s, pat) == {p \in 0..Len(s) : Occurs(s, pat, p)}

SetMin(S) == CHOOSE x \in S : \A y \in S : x <= y
SetMax(S) == CHOOSE x \in S : \A y \in S : x >= y

\* str.index / str.rindex: -1 stands for ValueError
Index(s, pat) == IF Occurrences(s, pat) = {} THEN -1 ELSE SetMin(Occurrences(s, pat))
RIndex(s, pat) == IF Occurrences(s, pat) = {} THEN -1 ELSE SetMax(Occurrences(s, pat))

RECURSIVE Concat(_)
Concat(ss) == IF ss = <<>> THEN <<>> ELSE Head(ss) \o Concat(Tail(ss))

\* str.split("\n")
RECURSIVE SplitNL(_)
SplitNL(s) ==
    IF \A k \in 1..Len(s) : s[k] # "\n" THEN <<s>>
    ELSE LET p == SetMin({k \in 1..Len(s) : s[k] = "\n"})
         IN  <<SubSeq(s, 1, p - 1)>> \o SplitNL(SubSeq(s, p + 1, Len(s)))

IsSpace(c) == c \in {" ", "\n", "\t"}

\* str.strip() == ""
StripsToEmpty(s) == \A k \in 1..Len(s) : IsSpace(s[k])

(***************************************************************************)
(* difflib.unified_diff on two lists of lines (SequenceMatcher without     *)
(* junk, n = 3 lines of context).  Indices are 0-based and half-open as in *)
(* difflib.  The texts of the model are short enough for one hunk.         *)
(***************************************************************************)
MatchesAt(a, b, i, j, k) == \A m \in 1..k : a[i + m] = b[j + m]

MatchCandidates(a, b, alo, ahi, blo, bhi) ==
    {c \in (alo..(ahi - 1)) \X (blo..(bhi - 1)) \X (1..Max(ahi - alo, 1)) :
        /\ c[1] + c[3] <= ahi
        /\ c[2] + c[3] <= bhi
        /\ MatchesAt(a, b, c[1], c[2], c[3])}

\* SequenceMatcher.find_longest_match: longest block, earliest in a, then
\* earliest in b; <<alo, blo, 0>> when nothing matches
FindLongestMatch(a, b, alo, ahi, blo, bhi) ==
    LET C == MatchCandidates(a, b, alo, ahi, blo, bhi)
    IN  IF C = {} THEN <<alo, blo, 0>>
        ELSE CHOOSE c \in C : \A d \in C :
                \/ c[3] > d[3]
                \/ c[3] = d[3] /\ c[1] < d[1]
                \/ c[3] = d[3] /\ c[1] = d[1] /\ c[2] <= d[2]

Tagged(tag, lines) == [k \in 1..Len(lines) |-> <<tag>> \o lines[k]]

\* the lines of the hunk before the context is trimmed: get_matching_blocks,
\* get_opcodes and the '-', '+', ' ' prefixes of unified_diff
RECURSIVE DiffLines(_, _, _, _, _, _)
DiffLines(a, b, alo, ahi, blo, bhi) ==
    LET m == FindLongestMatch(a, b, alo, ahi, blo, bhi)
    IN  IF m[3] = 0
        THEN Tagged("-", Slice(a, alo, ahi)) \o Tagged("+", Slice(b, blo, bhi))
        ELSE DiffLines(a, b, alo, m[1], blo, m[2])
             \o Tagged(" ", Slice(a, m[1], m[1] + m[3]))
             \o DiffLines(a, b, m[1] + m[3], ahi, m[2] + m[3], bhi)

IsChangeLine(l) == l[1] # " "

\* get_grouped_opcodes(3): at most 3 lines of context around the changes
TrimContext(ls) ==
    LET ch == {k \in 1..Len(ls) : IsChangeLine(ls[k])}
    IN  SubSeq(ls, Max(1, SetMin(ch) - 3), Min(Len(ls), SetMax(ch) + 3))

DiffHeader == << <<"-", "-", "-", " ", "\n">>, <<"+", "+", "+", " ", "\n">>, <<"@@", "\n">> >>

\* a diff that lists the lines of equal inputs too, as difflib.ndiff does
UnifiedDiffKeepEqual(a, b) ==
    DiffHeader \o DiffLines(a, b, 0, Len(a), 0, Len(b))

UnifiedDiff(a, b) ==
    LET ls == DiffLines(a, b, 0, Len(a), 0, Len(b))
    IN  IF \A k \in 1..Len(ls) : ~IsChangeLine(ls[k]) THEN <<>>
        ELSE DiffHeader \o TrimContext(ls)

(***************************************************************************)
(* Formatting of one diff line, copykun.py lines 401-410.                  *)
(***************************************************************************)
IsMarker(c) == c \in {"+", "|", "-", " "}

\* length of the run of '>' that starts at 1-based position p
RECURSIVE QuoteRun(_, _)
QuoteRun(line, p) ==
    IF p <= Len(line) /\ line[p] = ">" THEN 1 + QuoteRun(line, p + 1) ELSE 0

\* len(match.group(1)) of re.search(r"([\+|\-| ]>*).*", line); 0 when no match
MarkerLen(line) ==
    LET ps == {p \in 1..Len(line) : IsMarker(line[p])}
    IN  IF ps = {} THEN 0 ELSE 1 + QuoteRun(line, SetMin(ps) + 1)

\* the text appended to edit_content for one diff line
FormatDiffLine(line) ==
    LET idx == MarkerLen(line)
        rest == Slice(line, idx, Len(line))
        esc == IF line[1] = "-" \/ line[1] = "+" THEN <<"\\">> ELSE <<>>
    IN  IF idx = 0 THEN line \o <<"\n", "\n">>
        ELSE IF StripsToEmpty(rest) THEN <<>>
        ELSE Slice(line, 1, idx) \o esc \o <<line[1], " ">> \o rest \o <<"\n", "\n">>

\* datetime.fromtimestamp(edited).strftime("%d/%m/%Y %H:%M:%S")
FormatTime(t) == ToString(t)

\* edit_content of copykun.py lines 393, 401-410
EditContent(diff, edited) ==
    LET body == Slice(diff, Min(3, Len(diff)), Len(diff))
    IN  <<"Edited @ ", FormatTime(edited), "\n", "\n">>
        \o Concat([k \in 1..Len(body) |-> FormatDiffLine(body[k])])

(***************************************************************************)
(* Rendering of a source and the body of the mirrored reply.               *)
(***************************************************************************)
\* the configured tagline, footer and error message, and the source's title
Tagline == <<"T">>
Title == <<"t">>
Footer == <<"F">>
ErrorMsg == <<"E">>

\* get_post_text of a self post: every paragraph quoted on a line of its own
Render(paras) == Concat([k \in 1..Len(paras) |-> <<">", " ", paras[k], "\n">>])

\* a paragraph of LongParaLen characters, kept as one element
LongPara == "L"

Digits == {"0", "1", "2", "3", "4", "5", "6", "7", "8", "9"}

\* characters of a date formatted with "%d/%m/%Y %H:%M:%S"
DateLen == 19

\* len() of one element of a text
CharLen(c) ==
    CASE c = LongPara -> LongParaLen
      [] SubSeq(c, 1, 1) \in Digits -> DateLen
      [] OTHER -> Len(c)

\* len() of a text
RECURSIVE TextLen(_)
TextLen(s) == IF s = <<>> THEN 0 ELSE CharLen(Head(s)) + TextLen(Tail(s))

\* the title get_post_text returns when there is no submission (line 171)
RemovedTitle == <<"[removed]", " ", " ", "\n">> \o ErrorMsg \o <<"\n">>

\* the text copy_post submits (lines 247-260); content that does not fit is
\* replaced by the configured error message, empty content is left out
CopyText(title, content) ==
    LET text == Tagline \o TEXT_DIVIDER \o title \o <<"\n", "\n">>
        room == MAX_COMMENT_LENGTH
                - (TextLen(text) + 2 * TextLen(TEXT_DIVIDER) + 2 + TextLen(Footer))
    IN  text \o (IF content = <<>> THEN <<>>
                 ELSE IF TextLen(content) <= room THEN content
                 ELSE <<">", " ">> \o ErrorMsg)
             \o TEXT_DIVIDER \o Footer

\* the text copy_post submits for a self post
CopyBody(content) == CopyText(Title, content)

(***************************************************************************)
(* get_comment_chain (lines 195-239).  The document has id SubmissionId;   *)
(* the replies on the path to the target are 1 (top level) .. depth (the   *)
(* target), each the child of the one before.                              *)
(***************************************************************************)
SubmissionId == 0

\* comments[id].parent_id[3:]
ParentId(id) == id - 1

\* submission.author.name
OpName == "op"

\* comments[id].author.name; "" when the account is deleted (author is None)
AuthorName(id) == CASE id % 3 = 1 -> OpName [] id % 3 = 2 -> "" [] OTHER -> "u"

\* the paragraphs of comments[id].body; <<>> when the body is deleted
BodyParas(id) == CASE id % 3 = 1 -> <<"x">> [] id % 3 = 2 -> <<"x", "y">> [] OTHER -> <<>>

RECURSIVE Repeat(_, _)
Repeat(s, n) == IF n <= 0 THEN <<>> ELSE s \o Repeat(s, n - 1)

\* lines 222-237: the attributed block of one reply at a nesting level
Block(id, level) ==
    LET author == IF AuthorName(id) = "" THEN <<"[deleted]">>
                  ELSE <<"/u/", AuthorName(id)>>
                       \o (IF AuthorName(id) = OpName THEN <<" (OP)">> ELSE <<>>)
        paras == BodyParas(id)
    IN  Repeat(<<">", " ">>, level) \o author \o <<":", "\n", "\n">>
        \o (IF paras # <<>>
            THEN Concat([k \in 1..Len(paras) |-> Repeat(<<">">>, level) \o <<paras[k], "\n">>])
            ELSE Repeat(<<">", " ">>, level) \o <<"[deleted]", "\n">>)

\* a list left in the order it was collected in
NotReversed(s) == s

\* comment_id_list[::-1]
Reverse(s) == [k \in 1..Len(s) |-> s[Len(s) + 1 - k]]

\* lines 219-239: the loop over the reversed list, level += 1 per reply
RECURSIVE RenderChain(_, _)
RenderChain(ids, level) ==
    IF ids = <<>> THEN <<>>
    ELSE Block(Head(ids), level) \o RenderChain(Tail(ids), level + 1)

(***************************************************************************)
(* The persistent store (database.py).  db.posts is the Post table;        *)
(* db.content and db.reply hold the Content and Reply row of the posts     *)
(* that have one; db.edits holds the Edit rows of a post in creation order;*)
(* db.rows holds the posts of the Content rows in the order of the table.  *)
(***************************************************************************)
\* the source items the scans of the target community can discover
Ids == {1}

\* versions of the source's self text, each a sequence of paragraphs
Texts == {<<"a">>, <<"b">>}

VARIABLES
    now,        \* time.time(), its whole seconds
    half,       \* 1 when the clock is half a second past now, else 0
    tz,         \* datetime.utcnow().timestamp() - time.time() on this host
    db,         \* the persistent store
    src,        \* the linked sources on the remote platform: edited, paras
    mirror,     \* the bodies of the replies the bot has posted
    pc,         \* "idle", "edits" (inside check_edits) or "raised" (an exception left it)
    queue,      \* the due posts check_edits has still to iterate over
    i,          \* the local variable i of check_edits
    processed,  \* history: iterations of this pass that got past the cap test
    calls,      \* history: reply.edit calls per post in this pass
    srcEdits,   \* edits made to the sources so far
    faults,     \* fetches and store writes that have failed so far
    ev,         \* history: what the last step of the bot did, "env" when none
    chain,      \* the locals of a running get_comment_chain call
    posted,     \* history: replies the bot has posted per scanned item
    drift,      \* history: runs started off a due instant and calls that took time
    imports     \* history: calls of Database.convert_json so far

vars == <<now, half, tz, db, src, mirror, pc, queue, i, processed, calls, srcEdits, faults, ev, chain, posted, drift, imports>>

\* datetime.utcnow().timestamp() as an IntegerField keeps it: the naive UTC
\* time read as local time, cut to whole seconds
UtcNowTimestamp == now + tz

\* datetime.utcnow().timestamp() as the query compares it, in half seconds
UtcNowHalves == 2 * (now + tz) + half

\* the seconds the calls of one iteration of check_edits may take
FetchTimes == {0, 1}

EmptyDb == [posts |-> {}, content |-> <<>>, reply |-> <<>>, edits |-> <<>>, rows |-> <<>>]

Put(f, k, v) == [x \in (DOMAIN f) \cup {k} |-> IF x = k THEN v ELSE f[x]]

\* a save that puts a new Edit row in front of the existing ones
SaveObjectNewestFirst(d, obj) ==
    CASE obj.tbl = "content" ->
            [d EXCEPT !.content = Put(d.content, obj.id, obj.val),
                      !.rows = IF obj.id \in DOMAIN d.content THEN @ ELSE Append(@, obj.id)]
      [] obj.tbl = "reply"   -> [d EXCEPT !.reply = Put(d.reply, obj.id, obj.val)]
      [] obj.tbl = "edit"    -> [d EXCEPT !.edits = Put(d.edits, obj.id, <<obj.val>> \o d.edits[obj.id])]

\* Model.save() of one object: an existing Content or Reply row is written
\* in place, a new row is inserted after the existing ones
SaveObject(d, obj) ==
    CASE obj.tbl = "content" ->
            [d EXCEPT !.content = Put(d.content, obj.id, obj.val),
                      !.rows = IF obj.id \in DOMAIN d.content THEN @ ELSE Append(@, obj.id)]
      [] obj.tbl = "reply"   -> [d EXCEPT !.reply = Put(d.reply, obj.id, obj.val)]
      [] obj.tbl = "edit"    -> [d EXCEPT !.edits = Put(d.edits, obj.id, Append(d.edits[obj.id], obj.val))]

RECURSIVE SaveAll(_, _, _, _)
SaveAll(d, objs, k, failAt) ==
    IF k > Len(objs) \/ k = failAt THEN d
    ELSE SaveAll(SaveObject(d, objs[k]), objs, k + 1, failAt)

\* Database.save_objects without the transaction: the rows written before
\* the failure stay written
SaveObjectsNoTransaction(d, objs, failAt) == SaveAll(d, objs, 1, failAt)

\* Database.save_objects: every obj.save() inside one transaction; the write
\* of objs[failAt] raises peewee.OperationalError (failAt = 0: none does) and
\* the transaction is rolled back
SaveObjects(d, objs, failAt) ==
    IF failAt \in 1..Len(objs) THEN d ELSE SaveAll(d, objs, 1, 0)

ContentObj(id, lc, ui, ed) ==
    [tbl |-> "content", id |-> id, val |-> [last_checked |-> lc, update_interval |-> ui, edited |-> ed]]
ReplyObj(id, text) == [tbl |-> "reply", id |-> id, val |-> [latest_content |-> text]]
\* an Edit stamped with the time of the pass instead of the source's edit time
EditObjCheckedTime(id, text, t) ==
    [tbl |-> "edit", id |-> id, val |-> [content |-> text, edit_time |-> now]]
EditObj(id, text, t) == [tbl |-> "edit", id |-> id, val |-> [content |-> text, edit_time |-> t]]

\* the selection predicate of Database.get_posts_to_check_edits; t is the
\* time of the query in half seconds, the columns hold whole seconds
IsDueNonStrict(rec, t) == t >= 2 * (rec.last_checked + rec.update_interval)
IsDue(rec, t) == t > 2 * (rec.last_checked + rec.update_interval)

RECURSIVE Select(_, _, _)
Select(rows, d, t) ==
    IF rows = <<>> THEN <<>>
    ELSE (IF Head(rows) \in d.posts /\ IsDue(d.content[Head(rows)], t)
          THEN <<Head(rows)>> ELSE <<>>) \o Select(Tail(rows), d, t)

\* Database.get_posts_to_check_edits with now = t: the posts joined with
\* their Content row that satisfy the predicate; the query has no ORDER BY
\* and yields them in the order of the rows of the table
DueItems(d, t) == Select(d.rows, d, t)

(***************************************************************************)
(* The pieces of CopyKun.check_edits.                                      *)
(***************************************************************************)
BackoffUncapped(ui, cap) == ui * 2
\* min(db_content.update_interval * 2, cap)
Backoff(ui, cap) == Min(ui * 2, cap)

\* a peel that stops after the first rule whatever the number of Edit rows
PeelOnce(body, k, n, iv) ==
    IF k >= n THEN [body |-> body, i |-> iv]
    ELSE LET p == RIndex(body, <<"\n", "\n", "-", "-", "-", "-">>)
         IN  IF p = -1 THEN [body |-> body, i |-> k]
             ELSE [body |-> Slice(body, 0, p), i |-> k]

\* lines 382-388: one "\n\n----" is cut off the end per stored Edit; the
\* loop variable is the i of the enclosing loop; a missing rule ends the loop
RECURSIVE Peel(_, _, _, _)
Peel(body, k, n, iv) ==
    IF k >= n THEN [body |-> body, i |-> iv]
    ELSE LET p == RIndex(body, <<"\n", "\n", "-", "-", "-", "-">>)
         IN  IF p = -1 THEN [body |-> body, i |-> k]
             ELSE Peel(Slice(body, 0, p), k + 1, n, k)

RECURSIVE EditBlocks(_)
EditBlocks(es) ==
    IF es = <<>> THEN <<>>
    ELSE <<"\n", "\n", "-", "-", "-", "-", "\n">> \o Head(es).content \o EditBlocks(Tail(es))

\* lines 377-380: the live body is cut after the first rule and before the
\* last one; found is FALSE when index raises ValueError
BodyParts(body) ==
    LET first == Index(body, <<"-", "-", "-", "-", "\n">>)
        body_start == first + 5
        body_end == RIndex(body, <<"-", "-", "-", "-">>)
    IN  [found |-> first # -1,
         head |-> Slice(body, 0, body_start),
         old_body |-> Slice(body, body_start, body_end),
         footer |-> Slice(body, body_end, Len(body))]

\* lines 377-388: old_body once the blocks of the n stored Edit rows are cut off
OldBody(body, n, iv) == Peel(BodyParts(body).old_body, 0, n, iv)

\* lines 412-416: the text submitted to rd_reply.edit
Rebuild(head, old_body, es, edit_content, footer) ==
    head \o old_body \o EditBlocks(es)
         \o <<"\n", "\n", "-", "-", "-", "-", "\n">> \o edit_content \o footer

\* lines 375-416: everything computed before rd_reply.edit, from the live
\* body of the reply, the stored rendering, the stored Edit rows, the fresh
\* rendering, the source's edit time and the current value of i
PlanOf(body, latest, es, new_body, edited, iv) ==
    LET parts == BodyParts(body)
        peeled == OldBody(body, Len(es), iv)
        diff == UnifiedDiff(SplitNL(latest), SplitNL(new_body))
        edit_content == EditContent(diff, edited)
    IN  [found |-> parts.found,
         i |-> peeled.i,
         new_body |-> new_body,
         diff |-> diff,
         edit_content |-> edit_content,
         text |-> Rebuild(parts.head, peeled.body, es, edit_content, parts.footer)]

Plan(id) ==
    PlanOf(mirror[id], db.reply[id].latest_content, db.edits[id],
           Render(src[id].paras), src[id].edited, i)

\* line 374
EditedSinceCheck(id) ==
    src[id].edited # 0 /\ src[id].edited > db.content[id].last_checked

Event(kind, id) == [kind |-> kind, id |-> id]

\* no call is running
NoChain ==
    [pc |-> "off", depth |-> 0, initial |-> {}, comments |-> {}, deep |-> {},
     comment_id_list |-> <<>>,
     current_id |-> 0, fetched_more |-> FALSE, refetches |-> 0, fetches |-> 0,
     last |-> [kind |-> "none", id |-> 0], content |-> <<>>, answers |-> <<>>]

(***************************************************************************)
(* Initial state: an empty store, nothing scanned yet.                     *)
(***************************************************************************)
Init ==
    /\ now = StartTime
    /\ half = 0
    /\ tz \in {0, TzSkew}
    /\ db = EmptyDb
    /\ src = [id \in Ids |-> [edited |-> 0, paras |-> <<"a">>]]
    /\ mirror = <<>>
    /\ pc = "idle"
    /\ queue = <<>>
    /\ i = 0
    /\ processed = 0
    /\ calls = [id \in Ids |-> 0]
    /\ posted = [id \in Ids |-> 0]
    /\ drift = 0
    /\ imports = 0
    /\ srcEdits = 0
    /\ faults = 0
    /\ ev = Event("env", 0)
    /\ chain = NoChain

(***************************************************************************)
(* The environment: time passes, authors edit their posts.                 *)
(***************************************************************************)
\* the first whole second at which a tracked post is due; an instant is a
\* pair of whole seconds and half seconds
DueInstants ==
    {<<db.content[id].last_checked + db.content[id].update_interval - tz + 1, 0>> :
        id \in DOMAIN db.content}

\* the last whole second at which a tracked post is not yet due, the half
\* second after it, at which it is, and the instant Pause seconds on
OffInstants ==
    UNION {{<<db.content[id].last_checked + db.content[id].update_interval - tz, 0>>,
            <<db.content[id].last_checked + db.content[id].update_interval - tz, 1>>} :
           id \in DOMAIN db.content} \cup {<<now + Pause, 0>>}

\* the bot is not running; cron starts main again at a later instant
Tick ==
    /\ pc = "idle"
    /\ \E inst \in DueInstants \cup OffInstants :
        /\ inst[1] > now \/ (inst[1] = now /\ inst[2] > half)
        /\ inst[1] <= MaxTime
        /\ now' = inst[1]
        /\ half' = inst[2]
        /\ inst \notin DueInstants => drift < MaxDrift
        /\ drift' = IF inst \in DueInstants THEN drift ELSE drift + 1
    /\ ev' = Event("env", 0)
    /\ UNCHANGED <<tz, db, src, mirror, pc, queue, i, processed, calls, srcEdits, faults, chain, posted, imports>>

SourceEdit(id) ==
    /\ pc = "idle"
    /\ srcEdits < MaxSrcEdits
    /\ \E t \in Texts : src' = [src EXCEPT ![id] = [edited |-> now, paras |-> t]]
    /\ srcEdits' = srcEdits + 1
    /\ ev' = Event("env", 0)
    /\ UNCHANGED <<now, half, tz, db, mirror, pc, queue, i, processed, calls, faults, chain, posted, drift, imports>>

(***************************************************************************)
(* check_new_posts for one new post, with copy_post.                       *)
(***************************************************************************)
\* is_post_in_db that only finds the posts that were copied
IsPostInDbCopied(d, id) == id \in DOMAIN d.content

\* Database.is_post_in_db
IsPostInDb(d, id) == id \in d.posts

\* Post.create(id = ...) of an item that is recorded without Content and Reply
Ignore(d, id) == [d EXCEPT !.posts = @ \cup {id}, !.edits = Put(@, id, <<>>)]

\* copy_post lines 270-284 after parent.reply(text) succeeded: Post.create,
\* db_content.save() and db_reply.save() are three statements outside any
\* transaction; the failAt-th of them raises peewee.OperationalError
\* (failAt = 0: none does) and what was written before it stays written
CopyRows(id, failAt) ==
    LET content == Render(src[id].paras)
        d1 == IF failAt = 1 THEN db ELSE Ignore(db, id)
        d2 == IF failAt \in {1, 2} THEN d1
              ELSE SaveObject(d1, ContentObj(id, UtcNowTimestamp, InitialInterval,
                                  IF src[id].edited = 0 THEN NoneVal ELSE src[id].edited))
    IN  IF failAt \in {1, 2, 3} THEN d2 ELSE SaveObject(d2, ReplyObj(id, content))

\* copy_post for a link that was found: the reply is posted and the rows
\* are written, or a write fails, which nothing up to main catches
CopyPost(id, kind, failed) ==
    /\ \E failAt \in 0..3 :
        /\ failAt # 0 => faults < MaxFaults
        /\ faults' = IF failAt # 0 THEN faults + 1 ELSE faults
        /\ db' = CopyRows(id, failAt)
        /\ ev' = Event(IF failAt = 0 THEN kind ELSE failed, id)
    /\ mirror' = Put(mirror, id, CopyBody(Render(src[id].paras)))
    /\ posted' = [posted EXCEPT ![id] = @ + 1]

\* Post.create(id = ...) of lines 299, 353 and 359, outside any try: the
\* item is recorded without Content and Reply, or the write raises
\* peewee.OperationalError, nothing is recorded and the exception ends the run
IgnorePost(id, kind) ==
    /\ \E failAt \in 0..1 :
        /\ failAt # 0 => faults < MaxFaults
        /\ faults' = IF failAt # 0 THEN faults + 1 ELSE faults
        /\ db' = IF failAt = 1 THEN db ELSE Ignore(db, id)
        /\ ev' = Event(IF failAt = 0 THEN kind ELSE kind \o "_store_failed", id)
    /\ UNCHANGED <<mirror, posted>>

\* what get_post_to_copy and copy_post can come to for an item not in the
\* store: no link in the item or an ignored author (no_link), CannotCopyError
\* (cannot_copy), None from a failed fetch (fetch_failed), a posted reply
\* (copied, or copy_store_failed when a write after it raises), a reply the
\* platform rejects (reply_rejected)
ScanOutcomes == {"no_link", "cannot_copy", "fetch_failed", "copied", "reply_rejected"}

\* lines 294-303: one post of subreddit.new; only CannotCopyError records
\* the post (line 299)
ScanNewPost(id) ==
    /\ pc = "idle"
    /\ IF IsPostInDb(db, id)
       THEN /\ ev' = Event("known", id)
            /\ UNCHANGED <<db, mirror, posted, faults>>
       ELSE \E outcome \in ScanOutcomes :
            CASE outcome = "cannot_copy" -> IgnorePost(id, outcome)
                 [] outcome = "copied" -> CopyPost(id, "copied", "copy_store_failed")
                 [] OTHER ->
                      /\ ev' = Event(outcome, id)
                      /\ UNCHANGED <<db, mirror, posted, faults>>
    /\ UNCHANGED <<now, half, tz, src, pc, queue, i, processed, calls, srcEdits, chain, drift, imports>>

\* lines 347-359: one comment of subreddit.comments; CannotCopyError
\* records the comment (line 353) and a comment for which get_post_to_copy
\* returns None is recorded too (line 359)
ScanNewComment(id) ==
    /\ pc = "idle"
    /\ IF IsPostInDb(db, id)
       THEN /\ ev' = Event("known", id)
            /\ UNCHANGED <<db, mirror, posted, faults>>
       ELSE \E outcome \in ScanOutcomes :
            CASE outcome \in {"cannot_copy", "no_link", "fetch_failed"} ->
                      IgnorePost(id, outcome)
                 [] outcome = "copied" -> CopyPost(id, "copied", "copy_store_failed")
                 [] OTHER ->
                      /\ ev' = Event(outcome, id)
                      /\ UNCHANGED <<db, mirror, posted, faults>>
    /\ UNCHANGED <<now, half, tz, src, pc, queue, i, processed, calls, srcEdits, chain, drift, imports>>

\* what a summon can come to for a comment not in the store:
\* get_post_to_copy raises CannotCopyError, which check_messages does not
\* catch (summon_raised); it returns None, which is passed on to copy_post
\* (summon_unlinked); a posted reply (summon_copied, or summon_store_failed
\* when a write after it raises); a reply the platform rejects
\* (summon_rejected)
SummonOutcomes == {"summon_raised", "summon_unlinked", "summon_copied", "summon_rejected"}

\* lines 326-341: one summon in the inbox.  copy_post is called whatever
\* get_post_to_copy returned; for None it replies with the title of a
\* removed post and no content, creates the Post row and raises on
\* link.edited (line 274) before the Content and the Reply row are saved
ScanSummon(id) ==
    /\ pc = "idle"
    /\ IF IsPostInDb(db, id)
       THEN /\ ev' = Event("known", id)
            /\ UNCHANGED <<db, mirror, posted, faults>>
       ELSE \E outcome \in SummonOutcomes :
            CASE outcome = "summon_unlinked" ->
                      /\ ev' = Event(outcome, id)
                      /\ \E failAt \in 0..1 :
                            /\ failAt # 0 => faults < MaxFaults
                            /\ faults' = IF failAt # 0 THEN faults + 1 ELSE faults
                            /\ db' = IF failAt = 1 THEN db ELSE Ignore(db, id)
                      /\ mirror' = Put(mirror, id, CopyText(RemovedTitle, <<>>))
                      /\ posted' = [posted EXCEPT ![id] = @ + 1]
                 [] outcome = "summon_copied" ->
                      CopyPost(id, "summon_copied", "summon_store_failed")
                 [] OTHER ->
                      /\ ev' = Event(outcome, id)
                      /\ UNCHANGED <<db, mirror, posted, faults>>
    /\ UNCHANGED <<now, half, tz, src, pc, queue, i, processed, calls, srcEdits, chain, drift, imports>>

(***************************************************************************)
(* check_edits.  StartPass is the call and the query; every other action   *)
(* is one iteration of the loop over the due posts.                        *)
(***************************************************************************)
StartPass ==
    /\ pc = "idle"
    /\ pc' = "edits"
    /\ i' = 0
    /\ queue' = DueItems(db, UtcNowHalves)
    /\ processed' = 0
    /\ calls' = [id \in DOMAIN calls |-> 0]
    /\ ev' = Event("start", 0)
    /\ UNCHANGED <<now, half, tz, db, src, mirror, srcEdits, faults, chain, posted, drift, imports>>

\* lines 367-368
CapReached(iv) == iv > PassCap

\* check_edits returns (the for loop has run out of posts, or line 368), or
\* main has caught the exception that left it; either way this run of the
\* bot is over and the locals of check_edits are gone
EndPass ==
    /\ \/ pc = "edits" /\ (queue = <<>> \/ CapReached(i))
       \/ pc = "raised"
    /\ pc' = "idle"
    /\ queue' = <<>>
    /\ i' = 0
    /\ processed' = 0
    /\ calls' = [id \in DOMAIN calls |-> 0]
    /\ ev' = Event("env", 0)
    /\ UNCHANGED <<now, half, tz, db, src, mirror, srcEdits, faults, chain, posted, drift, imports>>

\* the guard shared by the iterations that get past line 368; the fetch of
\* line 370 and the calls after it take time, and every time.time() of the
\* iteration (lines 396, 420, 438, 447) is read after them
Iteration(id) ==
    /\ pc = "edits"
    /\ queue # <<>>
    /\ id = Head(queue)
    /\ ~CapReached(i)
    /\ processed' = processed + 1
    /\ \E d \in FetchTimes :
        /\ now + d <= MaxTime
        /\ d # 0 => drift < MaxDrift
        /\ now' = now + d
        /\ drift' = IF d # 0 THEN drift + 1 ELSE drift

\* an exception leaves check_edits and main logs it and exits
Abort == pc' = "raised" /\ queue' = <<>>

\* continue, or the end of the loop body
NextPost == queue' = Tail(queue) /\ UNCHANGED pc

\* lines 370-372: the source cannot be fetched (None) and the post is skipped,
\* or resolving raises CannotCopyError, which nothing in check_edits catches
SourceUnavailable(id) ==
    /\ Iteration(id)
    /\ faults < MaxFaults
    /\ faults' = faults + 1
    /\ \E raised \in BOOLEAN :
        IF raised
        THEN Abort /\ ev' = Event("resolve_raised", id)
        ELSE NextPost /\ ev' = Event("unresolvable", id)
    /\ UNCHANGED <<half, tz, db, src, mirror, i, calls, srcEdits, chain, posted, imports>>

\* lines 446-456: not edited since the last check
NoChange(id) ==
    /\ Iteration(id)
    /\ ~EditedSinceCheck(id)
    /\ \E failAt \in 0..1 :
        /\ failAt # 0 => faults < MaxFaults
        /\ faults' = IF failAt # 0 THEN faults + 1 ELSE faults
        /\ db' = SaveObjects(db, <<ContentObj(id, now',
                        Backoff(db.content[id].update_interval, NoChangeCap), src[id].edited)>>, failAt)
        /\ ev' = Event(IF failAt = 0 THEN "nochange" ELSE "nochange_store_failed", id)
    /\ i' = i + 1
    /\ NextPost
    /\ UNCHANGED <<half, tz, src, mirror, calls, srcEdits, chain, posted, imports>>

\* Database.get_reply_to_post(id).first(): None when the post has no Reply row
HasReply(d, id) == id \in DOMAIN d.reply

\* lines 375-376: the post has no Reply row, db_reply is None and
\* db_reply.permalink raises AttributeError, which ends the pass
ReplyMissing(id) ==
    /\ Iteration(id)
    /\ EditedSinceCheck(id)
    /\ ~HasReply(db, id)
    /\ Abort
    /\ ev' = Event("reply_missing", id)
    /\ UNCHANGED <<half, tz, db, src, mirror, i, calls, srcEdits, faults, chain, posted, imports>>

\* lines 375-380: the mirrored reply cannot be fetched (rd_reply is None) or
\* has no rule in its body: AttributeError / ValueError end the pass
ReplyUnavailable(id) ==
    /\ Iteration(id)
    /\ EditedSinceCheck(id)
    /\ HasReply(db, id)
    /\ faults < MaxFaults
    /\ faults' = faults + 1
    /\ Abort
    /\ ev' = Event("reply_unavailable", id)
    /\ UNCHANGED <<half, tz, db, src, mirror, i, calls, srcEdits, chain, posted, imports>>

\* lines 394-400: the diff is empty; save_objects is outside any try
EmptyDiff(id) ==
    /\ Iteration(id)
    /\ EditedSinceCheck(id)
    /\ HasReply(db, id)
    /\ LET plan == Plan(id) IN
        /\ plan.found
        /\ plan.diff = <<>>
        /\ i' = plan.i
    /\ \E failAt \in 0..1 :
        /\ failAt # 0 => faults < MaxFaults
        /\ faults' = IF failAt # 0 THEN faults + 1 ELSE faults
        /\ db' = SaveObjects(db, <<ContentObj(id, now',
                        Backoff(db.content[id].update_interval, EmptyDiffCap), src[id].edited)>>, failAt)
        /\ IF failAt = 0
           THEN NextPost /\ ev' = Event("emptydiff", id)
           ELSE Abort /\ ev' = Event("emptydiff_store_failed", id)
    /\ UNCHANGED <<half, tz, src, mirror, calls, srcEdits, chain, posted, imports>>

\* lines 417-436 and 443-445: the edit is accepted, the three objects are saved
Updated(id) ==
    /\ Iteration(id)
    /\ EditedSinceCheck(id)
    /\ HasReply(db, id)
    /\ LET plan == Plan(id) IN
        /\ plan.found
        /\ plan.diff # <<>>
        /\ mirror' = [mirror EXCEPT ![id] = plan.text]
        /\ i' = plan.i + 1
        /\ \E failAt \in 0..3 :
            /\ failAt # 0 => faults < MaxFaults
            /\ faults' = IF failAt # 0 THEN faults + 1 ELSE faults
            /\ db' = SaveObjects(db, <<ContentObj(id, now', InitialInterval, src[id].edited),
                                       ReplyObj(id, plan.new_body),
                                       EditObj(id, plan.edit_content, src[id].edited)>>, failAt)
            /\ ev' = Event(IF failAt = 0 THEN "updated" ELSE "updated_store_failed", id)
    /\ calls' = [calls EXCEPT ![id] = @ + 1]
    /\ NextPost
    /\ UNCHANGED <<half, tz, src, srcEdits, chain, posted, imports>>

\* lines 437-442: the platform rejects the edit (APIException); the save in
\* the handler is outside any try
Rejected(id) ==
    /\ Iteration(id)
    /\ EditedSinceCheck(id)
    /\ HasReply(db, id)
    /\ LET plan == Plan(id) IN
        /\ plan.found
        /\ plan.diff # <<>>
        /\ \E failAt \in 0..1 :
            /\ failAt # 0 => faults < MaxFaults
            /\ faults' = IF failAt # 0 THEN faults + 1 ELSE faults
            /\ db' = SaveObjects(db, <<ContentObj(id, now',
                            Backoff(db.content[id].update_interval, RejectedCap), src[id].edited)>>, failAt)
            /\ IF failAt = 0
               THEN NextPost /\ i' = plan.i + 1 /\ ev' = Event("rejected", id)
               ELSE Abort /\ i' = plan.i /\ ev' = Event("rejected_store_failed", id)
    /\ calls' = [calls EXCEPT ![id] = @ + 1]
    /\ UNCHANGED <<half, tz, src, mirror, srcEdits, chain, posted, imports>>

ReconcileItem(id) ==
    \/ SourceUnavailable(id)
    \/ NoChange(id)
    \/ ReplyMissing(id)
    \/ ReplyUnavailable(id)
    \/ EmptyDiff(id)
    \/ Updated(id)
    \/ Rejected(id)

Next ==
    \/ Tick
    \/ \E id \in Ids : SourceEdit(id)
    \/ \E id \in Ids : ScanNewPost(id)
    \/ StartPass
    \/ EndPass
    \/ \E id \in DOMAIN db.content : ReconcileItem(id)

Spec == Init /\ [][Next]_vars

TypeOK ==
    /\ pc \in {"idle", "edits", "raised"}
    /\ \A id \in DOMAIN db.content : db.content[id].update_interval \in Nat

(***************************************************************************)
(* A single query over a drawn store: the posts are either ignored (no     *)
(* Content row) or were copied and last checked at a drawn time.           *)
(***************************************************************************)
DuePosts == 1..DueCount
DueTimes == {30, 60, 61, 90, 91, 120, 121}
DueRecords == [last_checked : {0, 30}, update_interval : {60, 120}, edited : {NoneVal}]

\* the store in which the posts of domain recs have been copied from the
\* unedited source and carry the record recs[id]; every other post is ignored
CopiedStore(all, recs, rows) ==
    [posts |-> all,
     content |-> recs,
     reply |-> [id \in DOMAIN recs |-> [latest_content |-> Render(<<"a">>)]],
     edits |-> [id \in all |-> <<>>],
     rows |-> rows]

\* the orders in which the Content rows of the posts S can have been created
RowOrders(S) ==
    {f \in [1..Cardinality(S) -> S] :
        \A a, b \in 1..Cardinality(S) : a # b => f[a] # f[b]}

InitDue ==
    /\ now \in DueTimes
    /\ half \in {0, 1}
    /\ tz = 0
    /\ \E copied \in SUBSET DuePosts : \E recs \in [copied -> DueRecords] :
       \E rows \in RowOrders(copied) :
        /\ db = CopiedStore(DuePosts, recs, rows)
        /\ mirror = [id \in copied |-> CopyBody(Render(<<"a">>))]
    /\ src = [id \in DuePosts |-> [edited |-> 0, paras |-> <<"a">>]]
    /\ pc = "idle"
    /\ queue = <<>>
    /\ i = 0
    /\ processed = 0
    /\ calls = [id \in DuePosts |-> 0]
    /\ posted = [id \in DuePosts |-> 0]
    /\ drift = 0
    /\ imports = 0
    /\ srcEdits = 0
    /\ faults = 0
    /\ ev = Event("env", 0)
    /\ chain = NoChain

NextDue ==
    \/ StartPass
    \/ EndPass
    \/ \E id \in DOMAIN db.content : ReconcileItem(id)

SpecDue == InitDue /\ [][NextDue]_vars

(***************************************************************************)
(* A single pass over a store of PassItems copied posts that are all due.  *)
(* Post 1 may have been updated once before and may have been edited since;*)
(* the other posts are unedited.                                           *)
(***************************************************************************)
PassPosts == 1..PassItems

\* the posts were copied in the order of their ids, or in the opposite order
PassOrders == {[k \in PassPosts |-> k], [k \in PassPosts |-> PassItems + 1 - k]}

\* post 1 after copy_post at StartTime, an edit of the source to "b" at
\* StartTime + 30 and the pass at StartTime + 61 that mirrored it
FirstUpdate ==
    PlanOf(CopyBody(Render(<<"a">>)), Render(<<"a">>), <<>>, Render(<<"b">>), StartTime + 30, 0)

InitPass ==
    /\ now = StartTime + 200
    /\ half = 0
    /\ tz = 0
    /\ \E prior \in BOOLEAN : \E rows \in PassOrders :
        /\ db = [posts |-> PassPosts,
                 content |-> [id \in PassPosts |->
                    IF id = 1 /\ prior
                    THEN [last_checked |-> StartTime + 61, update_interval |-> InitialInterval,
                          edited |-> StartTime + 30]
                    ELSE [last_checked |-> StartTime, update_interval |-> InitialInterval,
                          edited |-> NoneVal]],
                 reply |-> [id \in PassPosts |->
                    [latest_content |-> IF id = 1 /\ prior THEN Render(<<"b">>) ELSE Render(<<"a">>)]],
                 edits |-> [id \in PassPosts |->
                    IF id = 1 /\ prior
                    THEN <<[content |-> FirstUpdate.edit_content, edit_time |-> StartTime + 30]>>
                    ELSE <<>>],
                 rows |-> rows]
        /\ mirror = [id \in PassPosts |->
                        IF id = 1 /\ prior THEN FirstUpdate.text ELSE CopyBody(Render(<<"a">>))]
        /\ \E s \in {[edited |-> IF prior THEN StartTime + 30 ELSE 0,
                      paras |-> IF prior THEN <<"b">> ELSE <<"a">>]}
                    \cup [edited : {StartTime + 150}, paras : Texts] :
            src = [id \in PassPosts |-> IF id = 1 THEN s ELSE [edited |-> 0, paras |-> <<"a">>]]
    /\ pc = "idle"
    /\ queue = <<>>
    /\ i = 0
    /\ processed = 0
    /\ calls = [id \in PassPosts |-> 0]
    /\ posted = [id \in PassPosts |-> 0]
    /\ drift = 0
    /\ imports = 0
    /\ srcEdits = 0
    /\ faults = 0
    /\ ev = Event("env", 0)
    /\ chain = NoChain

NextPass ==
    \/ StartPass
    \/ EndPass
    \/ \E id \in DOMAIN db.content : ReconcileItem(id)

SpecPass == InitPass /\ [][NextPass]_vars

(***************************************************************************)
(* The history of one post: it was copied at HistoryStart on a UTC host    *)
(* from the unedited source, whose author then revises it up to            *)
(* MaxRevisions times while the bot keeps running check_edits.             *)
(***************************************************************************)
\* the self text the post was copied from
FirstText == <<"a">>

\* the copy is made late enough for the clock to stop after three passes
HistoryStart == MaxTime - 190

\* the versions the author rewrites it to
Revisions == {<<"a">>, <<"b">>, <<"a", "b">>}

InitHistory ==
    /\ now = HistoryStart
    /\ half = 0
    /\ tz = 0
    /\ db = CopiedStore({1}, [id \in {1} |-> [last_checked |-> HistoryStart,
                                               update_interval |-> InitialInterval,
                                               edited |-> NoneVal]], <<1>>)
    /\ mirror = [id \in {1} |-> CopyBody(Render(FirstText))]
    /\ src = [id \in {1} |-> [edited |-> 0, paras |-> FirstText]]
    /\ pc = "idle"
    /\ queue = <<>>
    /\ i = 0
    /\ processed = 0
    /\ calls = [id \in {1} |-> 0]
    /\ posted = [id \in {1} |-> 0]
    /\ drift = 0
    /\ imports = 0
    /\ srcEdits = 0
    /\ faults = 0
    /\ ev = Event("env", 0)
    /\ chain = NoChain

\* the author saves a new version of the source
Revise(id) ==
    /\ pc = "idle"
    /\ srcEdits < MaxRevisions
    /\ \E t \in Revisions \ {src[id].paras} :
        src' = [src EXCEPT ![id] = [edited |-> now, paras |-> t]]
    /\ srcEdits' = srcEdits + 1
    /\ ev' = Event("env", 0)
    /\ UNCHANGED <<now, half, tz, db, mirror, pc, queue, i, processed, calls, faults, chain, posted, drift, imports>>

NextHistory ==
    \/ Tick
    \/ \E id \in DOMAIN src : Revise(id)
    \/ StartPass
    \/ EndPass
    \/ \E id \in DOMAIN db.content : ReconcileItem(id)

SpecHistory == InitHistory /\ [][NextHistory]_vars

(***************************************************************************)
(* The history of a post copied from a source of one long paragraph or of  *)
(* two, the second of which no longer fits into the copy.                  *)
(***************************************************************************)
LongTexts == {<<LongPara>>, <<LongPara, LongPara>>}

\* the copy is made late enough for the clock to stop after one pass
LongStart == MaxTime - 70

InitLong ==
    /\ now = LongStart
    /\ half = 0
    /\ tz = 0
    /\ \E first \in LongTexts :
        /\ db = [posts |-> {1},
                 content |-> [id \in {1} |-> [last_checked |-> LongStart,
                                              update_interval |-> InitialInterval,
                                              edited |-> NoneVal]],
                 reply |-> [id \in {1} |-> [latest_content |-> Render(first)]],
                 edits |-> [id \in {1} |-> <<>>],
                 rows |-> <<1>>]
        /\ mirror = [id \in {1} |-> CopyBody(Render(first))]
        /\ src = [id \in {1} |-> [edited |-> 0, paras |-> first]]
    /\ pc = "idle"
    /\ queue = <<>>
    /\ i = 0
    /\ processed = 0
    /\ calls = [id \in {1} |-> 0]
    /\ posted = [id \in {1} |-> 0]
    /\ drift = 0
    /\ imports = 0
    /\ srcEdits = 0
    /\ faults = 0
    /\ ev = Event("env", 0)
    /\ chain = NoChain

SpecLong == InitLong /\ [][NextHistory]_vars

(***************************************************************************)
(* The scans of the target community: a new post and a new comment, each   *)
(* linking a source, are scanned again and again between the passes of     *)
(* check_edits.                                                            *)
(***************************************************************************)
ScanPosts == {1}
ScanComments == {2}
ScanIds == ScanPosts \cup ScanComments

\* the scans start late enough for the clock to stop after a pass or two
ScanStart == MaxTime - 130

InitScan ==
    /\ now = ScanStart
    /\ half = 0
    /\ tz = 0
    /\ db = EmptyDb
    /\ src = [id \in ScanIds |-> [edited |-> 0, paras |-> <<"a">>]]
    /\ mirror = <<>>
    /\ pc = "idle"
    /\ queue = <<>>
    /\ i = 0
    /\ processed = 0
    /\ calls = [id \in ScanIds |-> 0]
    /\ posted = [id \in ScanIds |-> 0]
    /\ drift = 0
    /\ imports = 0
    /\ srcEdits = 0
    /\ faults = 0
    /\ ev = Event("env", 0)
    /\ chain = NoChain

(***************************************************************************)
(* Database.convert_json: the rows of replied_posts.json, the store of an  *)
(* earlier version of the bot, are imported into the tables.  The replies  *)
(* of the imported posts are already on the platform; none is posted.      *)
(***************************************************************************)
\* edit[9:28] of an edit text: what follows its first nine characters, when
\* that is a date field
RECURSIVE DropChars(_, _)
DropChars(text, n) ==
    IF n <= 0 \/ text = <<>> THEN text ELSE DropChars(Tail(text), n - CharLen(Head(text)))

DateField(text) ==
    LET rest == DropChars(text, 9)
    IN  IF rest # <<>> /\ CharLen(Head(rest)) = DateLen THEN Head(rest) ELSE ""

\* the times at which the edits of an imported history were made, the date
\* fields line 393 of copykun.py wrote for them, and the time each spells
ImportWindow == (MaxTime - 400)..MaxTime
Dates == [t \in ImportWindow |-> FormatTime(t)]
TimeOf == [s \in {Dates[t] : t \in ImportWindow} |-> CHOOSE t \in ImportWindow : Dates[t] = s]

\* datetime.strptime(edit[9:28], "%d/%m/%Y %H:%M:%S").replace(tzinfo =
\* timezone.utc).timestamp(): the time the field spells, read as UTC where
\* line 393 of copykun.py wrote local time; NoneVal when strptime raises
\* ValueError
ParseTime(text, skew) ==
    IF DateField(text) \in DOMAIN TimeOf THEN TimeOf[DateField(text)] - skew ELSE NoneVal

\* the times of the imported records
ImportChecked == ScanStart - 39
ImportEdited == ScanStart - 70

\* the edit an earlier run made to its reply when the source went from
\* "a" to "b"
ImportPlan ==
    PlanOf(CopyBody(Render(<<"a">>)), Render(<<"a">>), <<>>, Render(<<"b">>), ImportEdited, 0)

\* values of replied_posts.json: a post that was never edited, a post with
\* one edit in its history, and a post whose history holds a text without a
\* date; body is the reply the entry's "reply" permalink names
ImportRecords ==
    {[last_checked |-> ImportChecked, update_interval |-> InitialInterval, edited |-> 0,
      latest_content |-> Render(<<"a">>), edit_history |-> <<>>,
      body |-> CopyBody(Render(<<"a">>))],
     [last_checked |-> ImportChecked, update_interval |-> 2 * InitialInterval,
      edited |-> ImportEdited,
      latest_content |-> Render(<<"b">>), edit_history |-> <<ImportPlan.edit_content>>,
      body |-> ImportPlan.text],
     [last_checked |-> ImportChecked, update_interval |-> InitialInterval, edited |-> 0,
      latest_content |-> Render(<<"a">>), edit_history |-> << <<"Edited">> >>,
      body |-> CopyBody(Render(<<"a">>))]}

\* the files: no file or an empty one, the entry of one id, or the entries
\* of two ids in the order of the file
ImportFiles ==
    {<<>>}
    \cup {<<[id |-> a, rec |-> r]>> : a \in ScanIds, r \in ImportRecords}
    \cup {f \in {<<[id |-> a, rec |-> r], [id |-> b, rec |-> q]>> :
                    a \in ScanIds, b \in ScanIds, r \in ImportRecords, q \in ImportRecords} :
            f[1].id # f[2].id /\ f[1].rec # f[2].rec /\ f[1].rec.edit_history # <<>>}

\* the Edit rows of lines 105-111
ImportEdits(id, history, skew) ==
    [k \in 1..Len(history) |-> EditObj(id, history[k], ParseTime(history[k], skew))]

\* strptime raises for one of the texts of the history
HistoryRaises(history, skew) ==
    \E k \in 1..Len(history) : ParseTime(history[k], skew) = NoneVal

\* lines 88-111 for one entry: Post, Content, Reply and the Edit rows are
\* created in one transaction
ImportEntry(d, e, skew) ==
    LET d1 == Ignore(d, e.id)
        d2 == SaveObject(d1, ContentObj(e.id, e.rec.last_checked, e.rec.update_interval,
                                 IF e.rec.edited = 0 THEN NoneVal ELSE e.rec.edited))
        d3 == SaveObject(d2, ReplyObj(e.id, e.rec.latest_content))
        edits == ImportEdits(e.id, e.rec.edit_history, skew)
    IN  SaveAll(d3, edits, 1, 0)

\* lines 83-111 from entry k on: an id that is in the store is passed over
\* (lines 84-85); the transaction of entry failAt raises
\* peewee.OperationalError (failAt = 0: none does) and the transaction of an
\* entry whose history cannot be parsed raises ValueError: its rows are
\* rolled back and the entries after it are not reached
RECURSIVE ImportFrom(_, _, _, _, _)
ImportFrom(d, file, k, failAt, skew) ==
    IF k > Len(file) THEN [db |-> d, raised |-> FALSE]
    ELSE IF IsPostInDb(d, file[k].id) THEN ImportFrom(d, file, k + 1, failAt, skew)
    ELSE IF k = failAt \/ HistoryRaises(file[k].rec.edit_history, skew)
         THEN [db |-> d, raised |-> TRUE]
    ELSE ImportFrom(ImportEntry(d, file[k], skew), file, k + 1, failAt, skew)

\* the replies of the entries that were imported, as the platform holds them
RECURSIVE ImportedReplies(_, _, _, _)
ImportedReplies(m, d, file, k) ==
    IF k > Len(file) THEN m
    ELSE ImportedReplies(IF file[k].id \in DOMAIN d.content /\ file[k].id \notin DOMAIN m
                         THEN Put(m, file[k].id, file[k].rec.body) ELSE m,
                         d, file, k + 1)

\* Database.convert_json, called while the bot is not running
ConvertJson ==
    /\ pc = "idle"
    /\ imports < MaxImports
    /\ imports' = imports + 1
    /\ \E file \in ImportFiles : \E failAt \in 0..Len(file) :
        LET done == ImportFrom(db, file, 1, failAt, tz) IN
        /\ failAt # 0 => faults < MaxFaults /\ ~IsPostInDb(db, file[failAt].id)
        /\ faults' = IF failAt # 0 THEN faults + 1 ELSE faults
        /\ db' = done.db
        /\ mirror' = ImportedReplies(mirror, done.db, file, 1)
        /\ ev' = Event(IF done.raised THEN "import_raised" ELSE "imported", 0)
    /\ UNCHANGED <<now, half, tz, src, pc, queue, i, processed, calls, srcEdits, chain, posted, drift>>

NextScan ==
    \/ ConvertJson
    \/ \E id \in ScanPosts : ScanNewPost(id)
    \/ \E id \in ScanComments : ScanNewComment(id)
    \/ \E id \in ScanComments : ScanSummon(id)
    \/ Tick
    \/ StartPass
    \/ EndPass
    \/ \E id \in DOMAIN db.content : ReconcileItem(id)

SpecScan == InitScan /\ [][NextScan]_vars

(***************************************************************************)
(* Repeated runs of the bot over a store of RoundPostCount copied posts on *)
(* a UTC host.  The source of the posts in Broken can no longer be         *)
(* fetched: resolving its permalink raises at every pass.                  *)
(***************************************************************************)
RoundPosts == 1..RoundPostCount

\* the posts whose permalink makes get_correct_reddit_object raise
Broken == {3}

\* the posts were copied late enough for the clock to stop after two passes
RoundStart == MaxTime - 190

InitRounds ==
    /\ now = RoundStart
    /\ half = 0
    /\ tz = 0
    /\ \E rows \in RowOrders(RoundPosts) :
        db = CopiedStore(RoundPosts, [id \in RoundPosts |->
                [last_checked |-> RoundStart, update_interval |-> InitialInterval,
                 edited |-> NoneVal]], rows)
    /\ mirror = [id \in RoundPosts |-> CopyBody(Render(<<"a">>))]
    /\ src = [id \in RoundPosts |-> [edited |-> 0, paras |-> <<"a">>]]
    /\ pc = "idle"
    /\ queue = <<>>
    /\ i = 0
    /\ processed = 0
    /\ calls = [id \in RoundPosts |-> 0]
    /\ posted = [id \in RoundPosts |-> 0]
    /\ drift = 0
    /\ imports = 0
    /\ srcEdits = 0
    /\ faults = 0
    /\ ev = Event("env", 0)
    /\ chain = NoChain

\* line 370 raises for a post of Broken: CannotCopyError (line 115) or an
\* exception get_correct_reddit_object does not catch
ResolveRaises(id) ==
    /\ Iteration(id)
    /\ id \in Broken
    /\ Abort
    /\ ev' = Event("resolve_raised", id)
    /\ UNCHANGED <<half, tz, db, src, mirror, i, calls, srcEdits, faults, chain, posted, imports>>

NextRounds ==
    \/ Tick
    \/ StartPass
    \/ EndPass
    \/ \E id \in DOMAIN db.content \ Broken : ReconcileItem(id)
    \/ \E id \in DOMAIN db.content : ResolveRaises(id)

SpecRounds == InitRounds /\ [][NextRounds]_vars

\* the bot is run again and again, and a run goes on until it returns or raises
FairRounds == SpecRounds /\ WF_vars(NextRounds)

(***************************************************************************)
(* One call of get_comment_chain on the reply at depth chain.depth.        *)
(* chain.comments is the key set of the lookup built from                  *)
(* submission.comments (chain.initial when the call starts), chain.deep    *)
(* what replace_more_comments will load.                                   *)
(***************************************************************************)
\* lines 196-203
ChainCall(n, initial, deep, answers) ==
    [NoChain EXCEPT !.pc = "walk", !.depth = n, !.initial = initial,
                    !.comments = initial, !.deep = deep,
                    !.current_id = n, !.answers = answers]

\* what get_correct_reddit_object can come to for submission.permalink +
\* current_id: the reply asked for (line 106), the document (lines 109,
\* 112), None (line 118), or CannotCopyError (line 115)
FetchAnswers == {"comment", "submission", "none", "raised"}

\* the count of point fetches stops growing here
FetchCap == MaxDepth + MaxPointFetches

others == <<now, half, tz, db, src, mirror, pc, queue, i, processed, calls, srcEdits, faults, ev, posted, drift, imports>>

InitChain ==
    /\ now = StartTime
    /\ half = 0
    /\ tz = 0
    /\ db = EmptyDb
    /\ src = [id \in Ids |-> [edited |-> 0, paras |-> <<"a">>]]
    /\ mirror = <<>>
    /\ pc = "idle"
    /\ queue = <<>>
    /\ i = 0
    /\ processed = 0
    /\ calls = [id \in Ids |-> 0]
    /\ posted = [id \in Ids |-> 0]
    /\ drift = 0
    /\ imports = 0
    /\ srcEdits = 0
    /\ faults = 0
    /\ ev = Event("env", 0)
    /\ \E n \in 1..MaxDepth : \E deep \in SUBSET (1..n) : \E initial \in SUBSET deep :
        \E answers \in [(1..n) \ deep -> FetchAnswers] :
            chain = ChainCall(n, initial, deep, answers)

\* line 204 holds and line 205 fails
ChainMiss ==
    /\ chain.pc = "walk"
    /\ chain.current_id # SubmissionId
    /\ chain.current_id \notin chain.comments

\* a refetch that does not remember it was done
FetchedMoreForgotten == FALSE

\* line 213
FetchedMoreAfterRefetch == TRUE

\* lines 205-208
ChainHit ==
    /\ chain.pc = "walk"
    /\ chain.current_id # SubmissionId
    /\ chain.current_id \in chain.comments
    /\ chain' = [chain EXCEPT !.comment_id_list = Append(@, chain.current_id),
                              !.current_id = ParentId(chain.current_id),
                              !.last = [kind |-> "hit", id |-> chain.current_id]]
    /\ UNCHANGED others

\* lines 210-213
ChainRefetch ==
    /\ ChainMiss
    /\ ~chain.fetched_more
    /\ chain' = [chain EXCEPT !.comments = chain.deep,
                              !.fetched_more = FetchedMoreAfterRefetch,
                              !.refetches = @ + 1,
                              !.last = [kind |-> "refetch", id |-> chain.current_id]]
    /\ UNCHANGED others

\* lines 215-218: the platform answers the point fetch of an id the same way
\* every time; a reply is inserted under its own id, the document under the
\* document's id, and comment.id of None raises AttributeError
ChainPointFetch ==
    /\ ChainMiss
    /\ chain.fetched_more
    /\ LET outcome == chain.answers[chain.current_id] IN
        chain' = [chain EXCEPT
              !.comments = CASE outcome = "comment" -> @ \cup {chain.current_id}
                             [] outcome = "submission" -> @ \cup {SubmissionId}
                             [] OTHER -> @,
              !.pc = IF outcome \in {"none", "raised"} THEN "failed" ELSE @,
              !.fetches = Min(@ + 1, FetchCap),
              !.last = [kind |-> "fetch_" \o outcome, id |-> chain.current_id]]
    /\ UNCHANGED others

\* lines 219-239
ChainRender ==
    /\ chain.pc = "walk"
    /\ chain.current_id = SubmissionId
    /\ chain' = [chain EXCEPT !.content = RenderChain(Reverse(chain.comment_id_list), 2),
                              !.pc = "done",
                              !.last = [kind |-> "render", id |-> SubmissionId]]
    /\ UNCHANGED others

NextChain ==
    \/ ChainHit
    \/ ChainRefetch
    \/ ChainPointFetch
    \/ ChainRender

SpecChain == InitChain /\ [][NextChain]_vars

\* the call keeps running: the interpreter takes the next step of the loop
FairChain == SpecChain /\ WF_vars(NextChain)

(***************************************************************************)
(* Properties.                                                             *)
(***************************************************************************)
Tracked == DOMAIN db.content

\* the fresh rendering of the source of post id
Fresh(id) == Render(src[id].paras)

\* the step just taken was an iteration of check_edits on post id that ended as kind
Did(kind, id) == ev'.kind = kind /\ ev'.id = id

\* C1: every MirrorRecord has 60 <= update_interval <= 32768, after the
\* initial copy and after any sequence of reconcile passes
C1_IntervalBounded ==
    \A id \in Tracked :
        /\ db.content[id].update_interval >= 60
        /\ db.content[id].update_interval <= 32768

\* a record has been backed off all the way to the cap
C1_Witness ==
    \E id \in Tracked : db.content[id].update_interval = 32768 /\ ev.kind = "nochange"

\* C2: the persisted last_checked of a tracked item never decreases
C2_LastCheckedMonotone ==
    [][\A id \in Tracked : db'.content[id].last_checked >= db.content[id].last_checked]_vars

InQueue(id) == \E k \in 1..Len(queue) : queue[k] = id

\* C3: the query returns a tracked item iff it has a MirrorRecord and
\* now > last_checked + update_interval; with last_checked = 0 and
\* update_interval = 60 it is not returned at now = 30 or 60 and is returned
\* at now = 61; ignored items are never returned
C3_DueExactly ==
    ev.kind = "start" =>
        /\ \A id \in db.posts :
            InQueue(id) <=>
                /\ id \in Tracked
                /\ 2 * UtcNowTimestamp + half >
                        2 * (db.content[id].last_checked + db.content[id].update_interval)
        /\ \A k \in 1..Len(queue) : queue[k] \in db.posts
        /\ \A id \in Tracked :
            (db.content[id].last_checked = 0 /\ db.content[id].update_interval = 60) =>
                /\ (UtcNowTimestamp \in {30, 60} /\ half = 0) => ~InQueue(id)
                /\ UtcNowTimestamp = 61 => InQueue(id)
        /\ \A id \in db.posts \ Tracked : ~InQueue(id)

\* at now = 61 the query has returned the item checked at 0 with interval
\* 60, and has left out an ignored item
C3_Witness ==
    /\ ev.kind = "start"
    /\ UtcNowTimestamp = 61
    /\ half = 0
    /\ \E id \in Tracked :
        /\ db.content[id].last_checked = 0
        /\ db.content[id].update_interval = 60
        /\ InQueue(id)
    /\ db.posts \ Tracked # {}

\* C4: one pass processes at most 8 due items
C4_AtMostEight == processed <= 8

\* C5: a non-empty diff whose edit and store write both succeed leaves
\* update_interval = 60, last_checked = the time of the pass, edited = the
\* source's edit time, latest_content = the fresh rendering, and the log
\* extended by exactly one entry: the formatted diff, stamped with the
\* source's edit time
C5_UpdatedEffect ==
    [][\A id \in Tracked : Did("updated", id) =>
        /\ db'.content[id].update_interval = 60
        /\ db'.content[id].last_checked = now'
        /\ db'.content[id].edited = src[id].edited
        /\ db'.reply[id].latest_content = Fresh(id)
        /\ Fresh(id) # db.reply[id].latest_content
        /\ db'.edits[id] = Append(db.edits[id],
              [content |-> EditContent(UnifiedDiff(SplitNL(db.reply[id].latest_content),
                                                   SplitNL(Fresh(id))), src[id].edited),
               edit_time |-> src[id].edited])]_vars

\* an update has been applied for an edit made before the pass
C5_Witness ==
    /\ ev.kind = "updated"
    /\ src[ev.id].edited < now
    /\ db.content[ev.id].update_interval = 60
    /\ Len(db.edits[ev.id]) >= 1
    /\ db.reply[ev.id].latest_content = Fresh(ev.id)

\* C6 as stated: with no edit newer than last_checked, update_interval
\* becomes min(2 * old, 16384)
C6_NoChangeCap16384 ==
    [][\A id \in Tracked : Did("nochange", id) =>
        db'.content[id].update_interval = Min(2 * db.content[id].update_interval, 16384)]_vars

\* C6 amended: with no edit newer than last_checked, last_checked becomes the
\* time of the pass, edited the node's value, update_interval
\* min(2 * old, 32768); nothing else of the store changes, no edit call is
\* made, no entry is appended; if the store write fails the store is unchanged
C6_NoChangeEffect ==
    [][\A id \in Tracked :
        /\ Did("nochange", id) =>
            /\ ~EditedSinceCheck(id)
            /\ db'.content[id] = [last_checked |-> now', edited |-> src[id].edited,
                   update_interval |-> Min(2 * db.content[id].update_interval, 32768)]
            /\ db'.reply = db.reply /\ db'.edits = db.edits
            /\ mirror' = mirror /\ calls' = calls
        /\ Did("nochange_store_failed", id) =>
            db' = db /\ mirror' = mirror /\ calls' = calls]_vars

\* an unchanged item has been backed off beyond 16384
C6_Witness ==
    /\ ev.kind = "nochange"
    /\ db.content[ev.id].update_interval > 16384
    /\ db.content[ev.id].last_checked = now

\* C7: an empty diff never decreases update_interval
C7_EmptyDiffGrows ==
    [][\A id \in Tracked : Did("emptydiff", id) =>
        db'.content[id].update_interval >= db.content[id].update_interval]_vars

\* an iteration on post id ran to the comparison of the renderings
Compared == {"emptydiff", "emptydiff_store_failed", "updated", "updated_store_failed",
             "rejected", "rejected_store_failed"}

\* C8: when the stored rendering and the fresh rendering do not differ,
\* reconcile appends no entry, makes no edit call and leaves latest_content
\* and the mirrored body unchanged, however often such a pass is repeated
C8_EmptyDiffFrame ==
    [][\A id \in Tracked :
        (ev'.id = id /\ ev'.kind \in Compared /\ db.reply[id].latest_content = Fresh(id)) =>
            /\ ev'.kind \in {"emptydiff", "emptydiff_store_failed"}
            /\ db'.edits = db.edits
            /\ db'.reply = db.reply
            /\ mirror' = mirror
            /\ calls' = calls]_vars

\* an empty diff has been found on an edited source, and the reply still
\* has the body of the initial copy
C8_Witness ==
    /\ ev.kind = "emptydiff"
    /\ src[ev.id].edited > 0
    /\ db.content[ev.id].last_checked = now
    /\ db.reply[ev.id].latest_content = Fresh(ev.id)
    /\ db.edits[ev.id] = <<>>
    /\ mirror[ev.id] = CopyBody(Fresh(ev.id))

\* the Reply row of post id, NoneVal when it has none
ReplyRow(d, id) == IF HasReply(d, id) THEN d.reply[id] ELSE NoneVal

\* C9: the persisted rows of an item change together or not at all: an Edit
\* row is appended exactly when latest_content is replaced, by the rendering
\* the entry was diffed against, in the step that resets the record; a failed
\* store write leaves the store as it was
C9_AtomicTriple ==
    [][\A id \in Tracked :
        /\ (db'.edits[id] # db.edits[id]) <=> (ReplyRow(db', id) # ReplyRow(db, id))
        /\ db'.edits[id] # db.edits[id] =>
            /\ Did("updated", id)
            /\ Len(db'.edits[id]) = Len(db.edits[id]) + 1
            /\ db'.reply[id].latest_content = Fresh(id)
            /\ db'.content[id].last_checked = now'
        /\ ev'.kind \in {"updated_store_failed", "nochange_store_failed",
                         "emptydiff_store_failed", "rejected_store_failed"} => db' = db]_vars

\* the store write of an accepted edit has failed
C9_Witness ==
    /\ ev.kind = "updated_store_failed"
    /\ db.reply[ev.id].latest_content # Fresh(ev.id)
    /\ mirror[ev.id] # CopyBody(db.reply[ev.id].latest_content)

\* the platform has rejected the edit of the item's reply (lines 437-442)
EditRejected(id) == Did("rejected", id) \/ Did("rejected_store_failed", id)

\* C10: a rejected edit still sets last_checked to the time of the pass and
\* edited to the source's edit time, sets update_interval to
\* min(2 * old, 32768), appends no entry, leaves latest_content unchanged,
\* and the item gets no second edit call in the pass
C10_RejectedEffect ==
    [][\A id \in Tracked : EditRejected(id) =>
        /\ db'.content[id] = [last_checked |-> now', edited |-> src[id].edited,
               update_interval |-> Min(2 * db.content[id].update_interval, 32768)]
        /\ db'.edits = db.edits
        /\ db'.reply = db.reply
        /\ mirror' = mirror
        /\ calls'[id] = 1
        /\ id \notin {queue'[k] : k \in 1..Len(queue')}]_vars

\* the head, the original content region and the footer of the body
\* copy_post submitted for FirstText (lines 250-260)
Head0 == Tagline \o TEXT_DIVIDER
Region0 == Title \o <<"\n", "\n">> \o Render(FirstText) \o <<"\n", "\n">>
Footer0 == <<"-", "-", "-", "-", "\n">> \o Footer

Front(es) == SubSeq(es, 1, Len(es) - 1)

\* the body the reconstruction step builds, entry after entry, from the
\* body of the initial copy and the log es
RECURSIVE BuiltBody(_)
BuiltBody(es) ==
    IF es = <<>> THEN CopyBody(Render(FirstText))
    ELSE LET prev == BuiltBody(Front(es))
         IN  Rebuild(BodyParts(prev).head, OldBody(prev, Len(es) - 1, 0).body,
                     Front(es), es[Len(es)].content, BodyParts(prev).footer)

\* C11: for a body built by the reconstruction step from the original
\* content region and the K entries of a log, the text between the first and
\* the last rule with K rule-delimited segments peeled off its end is the
\* original content region, character for character
C11_RoundTrip ==
    \A id \in Tracked :
        /\ BodyParts(BuiltBody(db.edits[id])).found
        /\ OldBody(BuiltBody(db.edits[id]), Len(db.edits[id]), 0).body = Region0

\* the mirrored reply carries a body that was rebuilt with two prior
\* entries, the later of which spans several diff lines
C11_Witness ==
    /\ 1 \in Tracked
    /\ Len(db.edits[1]) = 2
    /\ mirror[1] = BuiltBody(db.edits[1])
    /\ mirror[1] # CopyBody(Render(FirstText))

\* C12: the body last submitted for an item is the unchanged head, the
\* original content region, the content of every stored EditEntry in creation
\* order, each preceded by a divider, and the original footer; the body has
\* as many edit blocks as the log has entries
C12_BodyMatchesLog ==
    \A id \in Tracked :
        mirror[id] = Head0 \o Region0 \o EditBlocks(db.edits[id]) \o Footer0

\* C13: after a store write that failed once the remote edit was accepted,
\* the next successful reconcile of the item submits a body with the original
\* content region and each edit annotation exactly once and in order: every
\* successful reconcile leaves the body that the stored log describes
C13_RecomputedBody ==
    [][\A id \in Tracked :
          Did("updated", id) =>
              mirror'[id] = Head0 \o Region0 \o EditBlocks(db'.edits[id]) \o Footer0]_vars

\* C14: when the stored permalink of a due item cannot be resolved, the item
\* is skipped: its MirrorRecord, MirrorReply and EditEntry log are unchanged,
\* no remote edit call is made, and the pass goes on to the next due item
C14_UnresolvableSkipped ==
    [][\A id \in Tracked :
          (Did("unresolvable", id) \/ Did("resolve_raised", id)) =>
              /\ db' = db
              /\ mirror' = mirror
              /\ calls' = calls
              /\ pc' = "edits"
              /\ queue' = Tail(queue)]_vars

\* the transcript of the path to the reply at depth n: one block per reply,
\* from the top-level reply to the target, the k-th at level k + 1
Transcript(n) == Concat([k \in 1..n |-> Block(k, k + 1)])

\* C15: get_comment_chain on a target at depth N returns exactly N
\* attributed blocks, one per reply on the path, in root-to-target order, the
\* i-th at nesting level i + 1
C15_ChainBlocks ==
    chain.pc = "done" =>
        /\ Len(chain.comment_id_list) = chain.depth
        /\ chain.content = Transcript(chain.depth)

\* the chain of a target at the largest depth has been rendered from a
\* lookup that held every ancestor
C15_Witness ==
    /\ chain.pc = "done"
    /\ chain.depth = MaxDepth
    /\ chain.refetches = 0
    /\ chain.content # <<>>

\* C16: get_comment_chain returns the same transcript when an ancestor is
\* missing from the initial lookup and present after the deep refetch, and
\* when it is still missing and obtained by a point fetch; the first miss
\* triggers the deep refetch, which happens at most once per call, and every
\* later miss triggers a point fetch of the missing id; the call fails only
\* when a point fetch does not return a node
C16_ChainFallbacks ==
    /\ [](chain.refetches <= 1)
    /\ [](chain.pc = "done" => chain.content = Transcript(chain.depth))
    /\ [](chain.pc = "failed" => chain.last.kind \in {"fetch_none", "fetch_raised"})
    /\ [][ChainMiss =>
            IF chain.refetches = 0
            THEN /\ chain'.refetches = 1
                 /\ chain'.fetches = chain.fetches
                 /\ chain'.comments = chain.deep
            ELSE /\ chain'.refetches = chain.refetches
                 /\ chain'.fetches = chain.fetches + 1
                 /\ chain'.last.id = chain.current_id]_vars

\* a call has succeeded after a deep refetch that found one missing
\* ancestor and a point fetch that found another
C16_Witness ==
    /\ chain.pc = "done"
    /\ chain.refetches = 1
    /\ chain.fetches >= 1
    /\ chain.deep \ chain.initial # {}
    /\ (1..chain.depth) \ chain.deep # {}
    /\ chain.content = Transcript(chain.depth)

\* the item is recorded without a MirrorRecord
Ignored(id) == id \in db.posts /\ id \notin DOMAIN db.content

\* every later scan skips an ignored item: its link is not resolved again,
\* it receives no mirrored reply and it is never due
StaysIgnored(id) ==
    Ignored(id) =>
        /\ Ignored(id)'
        /\ ev'.id = id => ev'.kind = "known"
        /\ posted'[id] = posted[id]
        /\ id \in DOMAIN mirror' <=> id \in DOMAIN mirror
        /\ ~InQueue(id)'
        /\ db'.edits[id] = <<>>

\* the item is recorded by this step with no MirrorRecord, no MirrorReply
\* and no reply posted
RecordedIgnored(id) ==
    /\ id \in db'.posts
    /\ id \notin DOMAIN db'.content
    /\ id \notin DOMAIN db'.reply
    /\ posted'[id] = posted[id]

C18_FetchFailureRetried ==
    [][\A id \in ScanIds :
          Did("fetch_failed", id) =>
              /\ db' = db
              /\ mirror' = mirror
              /\ ~IsPostInDb(db', id)]_vars

\* C19: the EditEntry log of every tracked item is append-only: no entry is
\* changed or removed by any step, and the log in creation order is in
\* non-decreasing edit_time order
C19_LogAppendOnly ==
    /\ [](\A id \in DOMAIN db.edits : \A j, k \in 1..Len(db.edits[id]) :
            j < k => db.edits[id][j].edit_time <= db.edits[id][k].edit_time)
    /\ [][\A id \in DOMAIN db.edits :
            /\ id \in DOMAIN db'.edits
            /\ Len(db'.edits[id]) >= Len(db.edits[id])
            /\ SubSeq(db'.edits[id], 1, Len(db.edits[id])) = db.edits[id]]_vars

\* a second entry has been appended behind an older one
C19_Witness ==
    /\ 1 \in Tracked
    /\ Len(db.edits[1]) = 2
    /\ db.edits[1][1].edit_time < db.edits[1][2].edit_time
    /\ ev = Event("updated", 1)

\* the iterations of check_edits that call rd_reply.edit
Submitting == {"updated", "updated_store_failed", "rejected", "rejected_store_failed"}

\* C20: every body the bot submits, by the initial copy or by a later
\* reconcile edit, has at most MAX_COMMENT_LENGTH characters
C20_BodyWithinBudget ==
    /\ [](\A id \in DOMAIN mirror : TextLen(mirror[id]) <= MAX_COMMENT_LENGTH)
    /\ [][\A id \in Tracked :
            (ev'.id = id /\ ev'.kind \in Submitting) =>
                TextLen(Plan(id).text) <= MAX_COMMENT_LENGTH]_vars

\* C21: get_comment_chain terminates for every reply tree and every
\* behaviour of the deep refetch and of the point fetch: it returns the
\* transcript or fails by raising, and never loops forever
C21_ChainTerminates == <>(chain.pc \in {"done", "failed"})

\* the iterations of check_edits in which the edit was rejected or a store
\* write failed
FailedKinds == {"rejected", "rejected_store_failed", "updated_store_failed",
                "emptydiff_store_failed", "nochange_store_failed"}

\* C22: an item whose reconcile failed (the edit was rejected or the store
\* write failed) is backed off: it is not reconciled again in the same pass,
\* and it is not due at a pass that starts less than its update_interval
\* after the failed attempt
C22_FailedBackedOff ==
    [][\A id \in Tracked :
          (ev'.id = id /\ ev'.kind \in FailedKinds) =>
              /\ ~InQueue(id)'
              /\ calls'[id] <= 1
              /\ \A d \in {0, db'.content[id].update_interval - 1} :
                    ~IsDue(db'.content[id], 2 * (UtcNowTimestamp' + d))]_vars

\* the query of a pass started now would return the item
DueNow(id) == IsDue(db.content[id], UtcNowHalves)

\* C23: under repeated passes every due item whose own source can be
\* fetched is eventually rechecked, whatever the other items do
C23_DueRechecked ==
    \A id \in RoundPosts \ Broken : (DueNow(id) ~> ~DueNow(id))

\* C24: across the new-post, new-comment and message scans every item id
\* receives at most one mirrored reply, a reply is posted only for an id that
\* is not in the store, and once a reply is posted the id is recorded
\* together with its MirrorRecord and MirrorReply
C24_OneReplyRecorded ==
    /\ [](\A id \in ScanIds :
            /\ posted[id] <= 1
            /\ posted[id] = 1 =>
                  /\ id \in db.posts
                  /\ id \in DOMAIN db.content
                  /\ id \in DOMAIN db.reply)
    /\ [][\A id \in ScanIds :
            posted'[id] > posted[id] => ~IsPostInDb(db, id)]_vars

====
